---- MODULE Spec2Model ----
(***************************************************************************)
(* Outdoor-temperature enrichment pipeline of temp-updater (src/main.ts):  *)
(* the temperature sheet ("外気温データ"), the per-hour fetch from the     *)
(* weather service, and getOutdoorTemperatureWithCache, which serves       *)
(* requested timestamps from the sheet and fetches the recent gaps.        *)
(*                                                                         *)
(* Instants are seconds since the script-local midnight of day 0.  A       *)
(* `number | null` is modelled as a sequence: <<>> for null, <<v>> for v.  *)
(*                                                                         *)
(* Spec      : calls of getOutdoorTemperatureWithCache, the only caller of *)
(*             the load and save functions in the program.                 *)
(* SpecStore : the save and load functions of the sheet called directly.   *)
(* SpecAll   : the cached lookup, the save and the load in any order.       *)
(* SpecRetry : successive invocations of the cached lookup as time passes.  *)
(* SpecStation   : getAmedasStationId and the script cache over time.      *)
(* SpecNearest   : findNearestAmedasStation on directories of stations.    *)
(* SpecCharts    : runs of updateAllCharts over the configured sources.    *)
(* SpecRange     : updateAllCharts and updateChartWithDateRange (the short *)
(*                 and the daily chart of a chosen period).                *)
(* SpecAggregate : the daily aggregation of updateLongPeriodChart.         *)
(* SpecDaily     : getDailyOutdoorTemperature.                             *)
(* SpecTriggers  : setupHourlyTrigger, removeTriggers and triggers         *)
(*                 installed by hand.                                      *)
(***************************************************************************)
EXTENDS Integers, Sequences, FiniteSets, TLC

VARIABLES sheet, now, last, cache, triggers

vars == <<sheet, now, last, cache, triggers>>

\* the script cache and the project triggers, which the temperature pipeline leaves alone
platform == <<cache, triggers>>

----------------------------------------------------------------------------
(* Bounds of the model *)

MaxLen == 2

MaxRows == 2

\* hours the clock advances over the scheduled invocations
MaxTicks == 1

\* stations of a station directory
MaxStations == 2

\* half days the clock advances over the life of a cache entry
MaxHalfDays == 3

\* data rows of a data sheet
MaxDataRows == 1

\* data rows handed to the daily aggregation
MaxPeriodRows == 3

\* project triggers installed at a time
MaxTriggers == 3

\* seconds that pass in an update between two readings of the clock, at most
MaxElapsed == 1

----------------------------------------------------------------------------
(* Program constants *)

SecPerHour == 3600

SecPerDay == 86400

RecentDays == 2

HttpOk == 200

\* cache.put(cacheKey, stationId, 86400)
CacheTtl == 86400

MinPerDegree == 60

\* if (timeDiffMinutes > 90)
StaleMinutes == 90

SecPerMinute == 60

\* for (let hour = 0; hour < 24; hour++)
HoursPerDay == 24

\* if (daysDiff >= 30)
LongPeriodDays == 30

----------------------------------------------------------------------------
(* The values inputs are drawn from *)

Now0 == 3 * SecPerDay + 10 * SecPerHour + 1800

Boundary0 == Now0 - RecentDays * SecPerDay

\* one second before the window, its first instant, a later instant of the same
\* hour and an instant of the next hour
Instants == {Boundary0 - 1, Boundary0, Boundary0 + 900, Boundary0 + SecPerHour}

Stations == {"s1", "s2"}

PostalCodes == {"p1", "p2"}

\* a key the script cache does not hold
NoEntry == [present |-> FALSE, value |-> "", expiry |-> 0]

Temps == {10, 20}

Null == <<>>

Some(v) == <<v>>

\* the temperature the weather service publishes for a station and an hour
Weather(stationId, hour) ==
  10 + 10 * ((hour \div SecPerHour) % 2) + (IF stationId = "s1" THEN 0 ELSE 1)

\* what one request for the map of an hour can come back with
ResponseKinds == {"throws", "status", "malformed", "nodata", "ok"}

\* the kinds the gap fetches of a call meet
EnrichKinds == {"throws", "status", "nodata", "ok"}

\* the response of a kind, seen from one station: whether UrlFetchApp.fetch throws,
\* the status code, whether the body parses, whether it has the station, its temp array
Respond(kind, stationId, hour) ==
  [fetch |-> IF kind = "throws" THEN "throws" ELSE "ok",
   code |-> IF kind = "status" THEN 503 ELSE HttpOk,
   body |-> IF kind = "malformed" THEN "malformed" ELSE "json",
   station |-> kind = "ok",
   temp |-> IF kind = "ok" THEN <<Weather(stationId, hour), 0>> ELSE <<>>]

SeqsUpTo(S, n) == UNION { [1..k -> S] : k \in 0..n }

Readings == [timestamp : Instants, temperature : {Null} \cup {Some(v) : v \in Temps}]

----------------------------------------------------------------------------
(* Date helpers *)

\* Date.setMinutes(0, 0, 0): the top of the hour of t
roundToHour(t) == t - (t % SecPerHour)

\* new Date(); setDate(getDate() - 2)
twoDaysAgoOf(clock) == clock - RecentDays * SecPerDay

MinOf(S) == CHOOSE x \in S : \A y \in S : x <= y

MaxOf(S) == CHOOSE x \in S : \A y \in S : x >= y

Range(s) == { s[i] : i \in 1..Len(s) }

----------------------------------------------------------------------------
(* The temperature sheet: row 1 is the header, data rows follow *)

getOrCreateOutdoorTempSheet(sh) ==
  IF sh.exists THEN sh ELSE [exists |-> TRUE, rows |-> <<>>]

\* Sheet.getLastRow(): the header row plus the data rows
getLastRow(sh) == 1 + Len(sh.rows)

\* Range.setValues at sheet row `row`: overwrites what is there, extends the sheet
setValues(sh, row, newRows) ==
  LET k == row - 1
  IN  [sh EXCEPT !.rows = SubSeq(@, 1, k - 1) \o newRows
                          \o SubSeq(@, k + Len(newRows), Len(@))]

\* variant: the block is written at the last row instead of below it
writeRow_atLastRow(sh) == getLastRow(sh)

\* the row the new block is written at
writeRow(sh) == getLastRow(sh) + 1

\* variant: the items without a temperature are written too, as 0
rowsToSave_keepAbsent(stationId, data) ==
  [i \in 1..Len(data) |->
     [timestamp |-> data[i].timestamp, stationId |-> stationId,
      temperature |-> IF data[i].temperature = <<>> THEN 0 ELSE data[i].temperature[1]]]

\* rows.push([item.timestamp, stationId, item.temperature]) for the non-null items
rowsToSave(stationId, data) ==
  LET kept == SelectSeq(data, LAMBDA item : item.temperature # Null)
  IN  [i \in 1..Len(kept) |->
         [timestamp |-> kept[i].timestamp, stationId |-> stationId,
          temperature |-> kept[i].temperature[1]]]

saveOutdoorTemperatureData(sh, stationId, data) ==
  LET sh1 == getOrCreateOutdoorTempSheet(sh)
      rows == rowsToSave(stationId, data)
  IN  IF Len(rows) > 0 THEN setValues(sh1, writeRow(sh1), rows) ELSE sh1

\* variant: the window of the scan excludes its start
rowMatches_afterStart(row, stationId, startDate, endDate) ==
  /\ row.stationId = stationId
  /\ row.timestamp > startDate
  /\ row.timestamp <= endDate

\* the row filter of the scan
rowMatches(row, stationId, startDate, endDate) ==
  /\ row.stationId = stationId
  /\ row.timestamp >= startDate
  /\ row.timestamp <= endDate

\* variant: a key already in the map is not set again, the first matching row wins
loadOutdoorTemperatureData_firstWins(sh, stationId, startDate, endDate) ==
  LET rows == getOrCreateOutdoorTempSheet(sh).rows
      idx  == { i \in 1..Len(rows) : rowMatches(rows[i], stationId, startDate, endDate) }
      keys == { roundToHour(rows[i].timestamp) : i \in idx }
      firstIdx(k) == MinOf({ i \in idx : roundToHour(rows[i].timestamp) = k })
  IN  [k \in keys |-> rows[firstIdx(k)].temperature]

\* the scan with Map.set: for every key the last matching row wins
loadOutdoorTemperatureData(sh, stationId, startDate, endDate) ==
  LET rows == getOrCreateOutdoorTempSheet(sh).rows
      idx  == { i \in 1..Len(rows) : rowMatches(rows[i], stationId, startDate, endDate) }
      keys == { roundToHour(rows[i].timestamp) : i \in idx }
      lastIdx(k) == MaxOf({ i \in idx : roundToHour(rows[i].timestamp) = k })
  IN  [k \in keys |-> rows[lastIdx(k)].temperature]

----------------------------------------------------------------------------
(* The per-hour fetch *)

\* the body of the try block: thrown is TRUE where UrlFetchApp.fetch or JSON.parse throws
fetchBody(stationId, datetime, response) ==
  IF response.fetch = "throws" THEN [thrown |-> TRUE, value |-> Null]
  ELSE IF response.code # HttpOk THEN [thrown |-> FALSE, value |-> Null]
  ELSE IF response.body = "malformed" THEN [thrown |-> TRUE, value |-> Null]
  ELSE IF response.station /\ Len(response.temp) > 0
       THEN [thrown |-> FALSE, value |-> Some(response.temp[1])]
       ELSE [thrown |-> FALSE, value |-> Null]

\* variant: the catch block logs and rethrows, as getLatLonFromPostalCode does
getTemperatureAtTime_rethrow(stationId, datetime, response) ==
  fetchBody(stationId, datetime, response)

\* try { ... } catch (error) { Logger.log(...); return null; }
getTemperatureAtTime(stationId, datetime, response) ==
  LET r == fetchBody(stationId, datetime, response)
  IN  IF r.thrown THEN [thrown |-> FALSE, value |-> Null] ELSE r

\* the entry pushed for one timestamp of the loop; `kind` is what the weather
\* service answers for the rounded hour
historyItem(stationId, timestamp, kind) ==
  LET roundedTime == roundToHour(timestamp)
      r == getTemperatureAtTime(stationId, roundedTime, Respond(kind, stationId, roundedTime))
  IN  [timestamp |-> timestamp, roundedTime |-> roundedTime, response |-> kind,
       temperature |-> r.value, thrown |-> r.thrown]

\* one fetch per timestamp, in order; an exception ends the loop.  responses[i]
\* is what the weather service answers to the i-th fetch
getTemperatureHistory(stationId, timestamps, responses) ==
  LET all == [i \in 1..Len(timestamps) |->
                historyItem(stationId, timestamps[i], responses[i])]
      bad == { i \in 1..Len(all) : all[i].thrown }
  IN  IF bad = {} THEN [thrown |-> FALSE, items |-> all]
      ELSE [thrown |-> TRUE, items |-> SubSeq(all, 1, MinOf(bad))]

----------------------------------------------------------------------------
(* getOutdoorTemperatureWithCache *)

\* variant: the comparison is strict
isRecent_strict(timestamp, twoDaysAgo) == timestamp > twoDaysAgo

\* timestamp >= twoDaysAgo
isRecent(timestamp, twoDaysAgo) == timestamp >= twoDaysAgo

\* the three-way branch of the classification loop, for one timestamp
initialResult(timestamp, cachedData) ==
  LET timeKey == roundToHour(timestamp)
  IN  [timestamp |-> timestamp,
       temperature |-> IF timeKey \in DOMAIN cachedData THEN Some(cachedData[timeKey]) ELSE Null]

initialResults(timestamps, cachedData) ==
  [i \in 1..Len(timestamps) |-> initialResult(timestamps[i], cachedData)]

\* variant: a gap is fetched once per hour
missingDataOf_oncePerHour(timestamps, cachedData, twoDaysAgo) ==
  LET idx == SelectSeq([i \in 1..Len(timestamps) |-> i],
                       LAMBDA i : /\ roundToHour(timestamps[i]) \notin DOMAIN cachedData
                                  /\ isRecent(timestamps[i], twoDaysAgo)
                                  /\ \A j \in 1..(i - 1) :
                                       roundToHour(timestamps[j]) # roundToHour(timestamps[i]))
  IN  [k \in 1..Len(idx) |-> timestamps[idx[k]]]

missingDataOf(timestamps, cachedData, twoDaysAgo) ==
  SelectSeq(timestamps, LAMBDA t : /\ roundToHour(t) \notin DOMAIN cachedData
                                   /\ isRecent(t, twoDaysAgo))

\* variant: the entry is located by its hour instead of its exact timestamp
findIndex_byHour(results, t) ==
  LET hits == { i \in 1..Len(results) : roundToHour(results[i].timestamp) = roundToHour(t) }
  IN  IF hits = {} THEN 0 ELSE MinOf(hits)

\* results.findIndex(r => r.timestamp.getTime() === t): first match, 0 when none
findIndex(results, t) ==
  LET hits == { i \in 1..Len(results) : results[i].timestamp = t }
  IN  IF hits = {} THEN 0 ELSE MinOf(hits)

\* variant: the fetched entries are pushed onto the results instead of merged
applyFetched_push(results, fetchedData, i) ==
  results \o [k \in 1..Len(fetchedData) |->
                [timestamp |-> fetchedData[k].timestamp,
                 temperature |-> fetchedData[k].temperature]]

RECURSIVE applyFetched(_, _, _)
applyFetched(results, fetchedData, i) ==
  IF i > Len(fetchedData) THEN results
  ELSE LET resultIndex == findIndex(results, fetchedData[i].timestamp)
       IN  IF resultIndex >= 1
           THEN applyFetched([results EXCEPT ![resultIndex].temperature =
                                               fetchedData[i].temperature],
                             fetchedData, i + 1)
           ELSE applyFetched(results, fetchedData, i + 1)

\* the first half of the call: the empty-input return, the load of the window
\* and the classification loop
lookupPhase(sh, clock, stationId, timestamps) ==
  IF Len(timestamps) = 0
  THEN [sheet |-> sh, results |-> <<>>, dataMap |-> <<>>, missingData |-> <<>>]
  ELSE
    LET startDate == MinOf(Range(timestamps))
        endDate == MaxOf(Range(timestamps))
        cachedData == loadOutdoorTemperatureData(sh, stationId, startDate, endDate)
        twoDaysAgo == twoDaysAgoOf(clock)
    IN  [sheet |-> getOrCreateOutdoorTempSheet(sh),
         results |-> initialResults(timestamps, cachedData),
         dataMap |-> cachedData,
         missingData |-> missingDataOf(timestamps, cachedData, twoDaysAgo)]

\* the second half: the fetches of the gaps, the save and the merge; an exception
\* of a fetch leaves the call before the save
fetchPhase(looked, stationId, responses) ==
  IF Len(looked.missingData) = 0
  THEN [sheet |-> looked.sheet, results |-> looked.results, dataMap |-> looked.dataMap,
        fetches |-> <<>>, appended |-> <<>>, error |-> FALSE]
  ELSE
    LET hist == getTemperatureHistory(stationId, looked.missingData, responses)
        fetchedData == hist.items
    IN  IF hist.thrown
        THEN [sheet |-> looked.sheet, results |-> <<>>, dataMap |-> looked.dataMap,
              fetches |-> fetchedData, appended |-> <<>>, error |-> TRUE]
        ELSE [sheet |-> saveOutdoorTemperatureData(looked.sheet, stationId, fetchedData),
              results |-> applyFetched(looked.results, fetchedData, 1),
              dataMap |-> looked.dataMap, fetches |-> fetchedData,
              appended |-> rowsToSave(stationId, fetchedData), error |-> FALSE]

getOutdoorTemperatureWithCache(sh, clock, stationId, timestamps, responses) ==
  fetchPhase(lookupPhase(sh, clock, stationId, timestamps), stationId, responses)

\* the second half of a call in which every fetch is answered alike
fetchGapsAs(looked, stationId, kind) ==
  fetchPhase(looked, stationId, [i \in 1..Len(looked.missingData) |-> kind])

\* a call in which every fetch is answered alike
enrichAs(sh, clock, stationId, timestamps, kind) ==
  fetchGapsAs(lookupPhase(sh, clock, stationId, timestamps), stationId, kind)

----------------------------------------------------------------------------
(* Station resolution: geocoder, station directory, script cache *)

\* coordinates of the directory, as [degrees, minutes]
DegMins == {<<0, 0>>, <<0, 30>>, <<1, 0>>}

DirectoryIds == Stations \cup {"s3"}

DirectoryEntries == [id : DirectoryIds, lat : {<<0, 0>>, <<0, 30>>}, lon : DegMins \ {<<0, 30>>}]

\* station directories in the iteration order of Object.entries: no id twice
Directories ==
  { d \in SeqsUpTo(DirectoryEntries, MaxStations) :
      \A i \in 1..Len(d), j \in 1..Len(d) : d[i].id = d[j].id => i = j }

\* the location the geocoder has for a postal code, in arc minutes
Geocode(postalCode) ==
  IF postalCode = "p1" THEN [lat |-> 0, lon |-> 0] ELSE [lat |-> 30, lon |-> 45]

GeoKinds == {"throws", "malformed", "nolocation", "ok"}

\* the try block rethrows: a failed request, a body that does not parse and an
\* answer without a location all end in an exception
getLatLonFromPostalCode(postalCode, kind) ==
  IF kind = "ok" THEN [thrown |-> FALSE, latlon |-> Geocode(postalCode)]
  ELSE [thrown |-> TRUE, latlon |-> [lat |-> 0, lon |-> 0]]

\* stationData.lat[0] + stationData.lat[1] / 60, in arc minutes
toDecimal(degMin) == MinPerDegree * degMin[1] + degMin[2]

\* the haversine distance between two points of the model's grid, taken in the
\* plane (the cosines of the latitudes as 1): the square of the distance in arc
\* minutes, which orders the grid points as the distance in km does
calculateDistance(lat1, lon1, lat2, lon2) ==
  (lat2 - lat1) * (lat2 - lat1) + (lon2 - lon1) * (lon2 - lon1)

\* the distance computed for the i-th station of the directory
distanceTo(lat, lon, stations, i) ==
  calculateDistance(lat, lon, toDecimal(stations[i].lat), toDecimal(stations[i].lon))

\* variant: a station at the same distance replaces the one found before
nearestIndex_lastWins(lat, lon, stations, n) ==
  IF n = 0 THEN 0
  ELSE LET ds == { distanceTo(lat, lon, stations, i) : i \in 1..n }
       IN  MaxOf({ i \in 1..n : distanceTo(lat, lon, stations, i) = MinOf(ds) })

\* the loop over the first n stations: the index of nearestStation, 0 for null;
\* a station replaces the one found before when distance < minDistance
RECURSIVE nearestIndex(_, _, _, _)
nearestIndex(lat, lon, stations, n) ==
  IF n = 0 THEN 0
  ELSE LET prev == nearestIndex(lat, lon, stations, n - 1)
       IN  IF prev = 0 \/ distanceTo(lat, lon, stations, n) < distanceTo(lat, lon, stations, prev)
           THEN n ELSE prev

\* what the request for the directory gives: an exception (failed request, body
\* that does not parse) or a directory
DirectoryResponses ==
  {[fetch |-> "throws", stations |-> <<>>]}
    \cup { [fetch |-> "ok", stations |-> d] : d \in Directories }

findNearestAmedasStation(lat, lon, response) ==
  IF response.fetch = "throws" THEN [thrown |-> TRUE, id |-> "", index |-> 0]
  ELSE LET stations == response.stations
           i == nearestIndex(lat, lon, stations, Len(stations))
       IN  IF i = 0 THEN [thrown |-> TRUE, id |-> "", index |-> 0]
           ELSE [thrown |-> FALSE, id |-> stations[i].id, index |-> i]

\* cache.get(cacheKey): null for a key without entry or with an expired one
cacheGet(c, key, expired) ==
  IF c[key].present /\ ~expired THEN Some(c[key].value) ELSE Null

\* whether the entry of the key counts as expired at the clock: the script cache
\* keeps a value for up to its expiration time; at that very instant either
expiredOutcomes(c, key, clock) ==
  IF ~c[key].present \/ clock > c[key].expiry THEN {TRUE}
  ELSE IF clock < c[key].expiry THEN {FALSE} ELSE {TRUE, FALSE}

\* variant: the resolved id is returned but not put into the cache
cachePut_skipped(c, key, value, clock) == c

\* cache.put(cacheKey, stationId, 86400)
cachePut(c, key, value, clock) ==
  [c EXCEPT ![key] = [present |-> TRUE, value |-> value, expiry |-> clock + CacheTtl]]

\* variant: a failed resolution is remembered, an empty id is put into the cache
getAmedasStationId_cacheFailure(c, clock, postalCode, expired, geoKind, directory) ==
  LET stationId == cacheGet(c, postalCode, expired)
  IN  IF stationId # Null
      THEN [cache |-> c, thrown |-> FALSE, stationId |-> stationId[1], calls |-> <<>>]
      ELSE
        LET geo == getLatLonFromPostalCode(postalCode, geoKind)
            station == findNearestAmedasStation(geo.latlon.lat, geo.latlon.lon, directory)
        IN  IF geo.thrown
            THEN [cache |-> cachePut(c, postalCode, "", clock), thrown |-> TRUE,
                  stationId |-> "", calls |-> <<"geocoder">>]
            ELSE IF station.thrown
            THEN [cache |-> cachePut(c, postalCode, "", clock), thrown |-> TRUE,
                  stationId |-> "", calls |-> <<"geocoder", "directory">>]
            ELSE [cache |-> cachePut(c, postalCode, station.id, clock), thrown |-> FALSE,
                  stationId |-> station.id, calls |-> <<"geocoder", "directory">>]

\* calls lists the network requests made, in order
getAmedasStationId(c, clock, postalCode, expired, geoKind, directory) ==
  LET stationId == cacheGet(c, postalCode, expired)
  IN  IF stationId # Null
      THEN [cache |-> c, thrown |-> FALSE, stationId |-> stationId[1], calls |-> <<>>]
      ELSE
        LET geo == getLatLonFromPostalCode(postalCode, geoKind)
            station == findNearestAmedasStation(geo.latlon.lat, geo.latlon.lon, directory)
        IN  IF geo.thrown
            THEN [cache |-> c, thrown |-> TRUE, stationId |-> "", calls |-> <<"geocoder">>]
            ELSE IF station.thrown
            THEN [cache |-> c, thrown |-> TRUE, stationId |-> "",
                  calls |-> <<"geocoder", "directory">>]
            ELSE [cache |-> cachePut(c, postalCode, station.id, clock), thrown |-> FALSE,
                  stationId |-> station.id, calls |-> <<"geocoder", "directory">>]

----------------------------------------------------------------------------
(* The chart update of the configured data sheets *)

\* the sheet configurations of setupConfig: two data sheets, one postal code
SheetConfigs ==
  << [dataSheetName |-> "d1", postalCode |-> "p1"],
     [dataSheetName |-> "d2", postalCode |-> "p1"] >>

\* a header cell is the set of the column names it contains as a substring
TimestampCell == {"timestamp"}

TemperatureCell == {"indoor", "temperature"}

HumidityCell == {"humidity"}

Headers ==
  { <<TimestampCell, TemperatureCell, HumidityCell>>,
    <<TimestampCell, HumidityCell>>,
    <<TimestampCell, TemperatureCell>> }

\* timestamps of data rows: older than two days, just over and exactly 90 minutes old
RowTimes ==
  { Now0 - 3 * SecPerDay, Now0 - StaleMinutes * SecPerMinute - 1,
    Now0 - StaleMinutes * SecPerMinute }

\* a data row of the hourly update: its timestamp, temperature and humidity cells
rowAt(t) == [timestamp |-> t, temp |-> 20, humidity |-> 50]

\* the rows of a data sheet are in the order the form wrote them
DataRows ==
  { rows \in SeqsUpTo({ rowAt(t) : t \in RowTimes }, MaxDataRows) :
      \A i \in 1..Len(rows), j \in 1..Len(rows) :
        i <= j => rows[i].timestamp <= rows[j].timestamp }

DataSheets ==
  {[exists |-> FALSE, headers |-> <<>>, rows |-> <<>>]}
    \cup [exists : {TRUE}, headers : Headers, rows : DataRows]

\* the data rows of an hourly update, with timestamps older than two days, exactly
\* two days old and exactly 90 minutes old
HourlyRows ==
  { rows \in SeqsUpTo({ rowAt(t) : t \in { Now0 - 3 * SecPerDay,
                                             Now0 - RecentDays * SecPerDay,
                                             Now0 - StaleMinutes * SecPerMinute } },
                      MaxDataRows) :
      \A i \in 1..Len(rows), j \in 1..Len(rows) :
        i <= j => rows[i].timestamp <= rows[j].timestamp }

\* the data sheets an hourly update finds: none, one with all columns and any of
\* the rows, one with a column missing and a row
HourlySheets ==
  {[exists |-> FALSE, headers |-> <<>>, rows |-> <<>>]}
    \cup [exists : {TRUE}, headers : {<<TimestampCell, TemperatureCell, HumidityCell>>},
          rows : HourlyRows]
    \cup [exists : {TRUE},
          headers : Headers \ {<<TimestampCell, TemperatureCell, HumidityCell>>},
          rows : {<<rowAt(Now0 - StaleMinutes * SecPerMinute)>>}]

\* the chart sheet of a source: whether it exists, the number of its embedded
\* charts and the timestamps of the data rows written under the header.  The chart
\* sheets of the configured sources at a run: the first source has none yet, the
\* second has the one an earlier run rendered
ChartSheets ==
  << [exists |-> FALSE, charts |-> 0, data |-> <<>>],
     [exists |-> TRUE, charts |-> 1, data |-> <<Now0 - SecPerDay>>] >>

\* getSheetByName || insertSheet, removeChart for every chart, chartSheet.clear()
clearChartSheet(chart) == [exists |-> TRUE, charts |-> 0, data |-> <<>>]

\* setValues of the chart data and chartSheet.insertChart(chart)
renderChart(chart, rows) ==
  [chart EXCEPT !.charts = chart.charts + 1,
                !.data = [i \in 1..Len(rows) |-> rows[i].timestamp]]

\* what the geocoder and the station directory answer during the update of a sheet
ResolverKinds == {"geocoderFails", "directoryFails", "ok"}

DirectoryOfCharts ==
  << [id |-> "s1", lat |-> <<0, 0>>, lon |-> <<0, 0>>],
     [id |-> "s2", lat |-> <<0, 30>>, lon |-> <<1, 0>>] >>

geoKindOf(resolver) == IF resolver = "geocoderFails" THEN "throws" ELSE "ok"

directoryOf(resolver) ==
  IF resolver = "directoryFails" THEN [fetch |-> "throws", stations |-> <<>>]
  ELSE [fetch |-> "ok", stations |-> DirectoryOfCharts]

\* headers[i].toString().includes(columnName): the 0-based index of the first
\* such column, -1 when there is none
findColumnIndex(headers, columnName) ==
  LET hits == { i \in 1..Len(headers) : columnName \in headers[i] }
  IN  IF hits = {} THEN -1 ELSE MinOf(hits) - 1

\* the rows the filter keeps: timestamp >= twoDaysAgo
recentRows(rows, clock) ==
  SelectSeq(rows, LAMBDA row : row.timestamp >= twoDaysAgoOf(clock))

\* timestamps.push(timestamp) for the rows kept
timestampsOf(rows) == [i \in 1..Len(rows) |-> rows[i].timestamp]

\* variant: the threshold is inclusive
isStale_inclusive(latestTimestamp, clock) ==
  clock - latestTimestamp >= StaleMinutes * SecPerMinute

\* timeDiffMinutes > 90
isStale(latestTimestamp, clock) ==
  clock - latestTimestamp > StaleMinutes * SecPerMinute

\* the result a source's update ends with before any request is made
endsEarly(c, sh, chart, outcome) ==
  [cache |-> c, sheet |-> sh, chart |-> chart, outcome |-> outcome, gap |-> FALSE,
   calls |-> <<>>, hits |-> {}, fetched |-> <<>>]

\* the part of updateSingleChart from the station lookup on; the enricher reads
\* the clock `elapsed` seconds after the filter of the recent rows did; hits and
\* fetched are the hours the sheet had and the timestamps fetched
chartWithOutdoor(c, sh, chart, clock, elapsed, config, recent, resolver, kind) ==
  LET latest == recent[Len(recent)].timestamp
      charted(station, r) ==
        IF station.thrown
        THEN [cache |-> c, sheet |-> sh, chart |-> clearChartSheet(chart),
              outcome |-> "error", gap |-> FALSE, calls |-> station.calls,
              hits |-> {}, fetched |-> <<>>]
        ELSE [cache |-> station.cache, sheet |-> r.sheet,
              chart |-> renderChart(clearChartSheet(chart), recent),
              outcome |-> "updated", gap |-> isStale(latest, clock),
              calls |-> station.calls \o [i \in 1..Len(r.fetches) |-> "weather"],
              hits |-> DOMAIN r.dataMap,
              fetched |-> [i \in 1..Len(r.fetches) |-> r.fetches[i].timestamp]]
      enriched(station) ==
        charted(station, enrichAs(sh, clock + elapsed, station.stationId,
                                  timestampsOf(recent), kind))
  IN  enriched(getAmedasStationId(c, clock, config.postalCode,
                                  ~c[config.postalCode].present
                                    \/ clock >= c[config.postalCode].expiry,
                                  geoKindOf(resolver), directoryOf(resolver)))

\* variant: the catch block rethrows instead of returning null
updateSingleChart_rethrow(c, sh, chart, clock, elapsed, config, data, resolver, kind) ==
  LET r == IF ~data.exists THEN endsEarly(c, sh, chart, "nosheet")
           ELSE IF \/ findColumnIndex(data.headers, "temperature") = -1
                   \/ findColumnIndex(data.headers, "humidity") = -1
           THEN endsEarly(c, sh, chart, "thrown")
           ELSE IF Len(recentRows(data.rows, clock)) = 0
           THEN endsEarly(c, sh, chart, "norecent")
           ELSE chartWithOutdoor(c, sh, chart, clock, elapsed, config,
                                 recentRows(data.rows, clock), resolver, kind)
  IN  IF r.outcome = "error" THEN [r EXCEPT !.outcome = "thrown"] ELSE r

\* outcome: "nosheet" (warning, null), "error" (exception caught and logged, null),
\* "norecent" (null), "updated" (the gap information or null); gap tells whether
\* gap information is returned
updateSingleChart(c, sh, chart, clock, elapsed, config, data, resolver, kind) ==
  IF ~data.exists THEN endsEarly(c, sh, chart, "nosheet")
  ELSE IF \/ findColumnIndex(data.headers, "temperature") = -1
          \/ findColumnIndex(data.headers, "humidity") = -1
  THEN endsEarly(c, sh, chart, "error")
  ELSE IF Len(recentRows(data.rows, clock)) = 0 THEN endsEarly(c, sh, chart, "norecent")
  ELSE chartWithOutdoor(c, sh, chart, clock, elapsed, config,
                        recentRows(data.rows, clock), resolver, kind)

\* sheetConfigs.forEach from the i-th configuration on; an exception that leaves
\* updateSingleChart ends the run
RECURSIVE forEachConfig(_, _, _, _, _, _, _, _)
forEachConfig(acc, charts, clock, elapsed, datas, resolvers, kind, i) ==
  LET noted(r) ==
        [cache |-> r.cache, sheet |-> r.sheet,
         thrown |-> r.outcome = "thrown",
         log |-> Append(acc.log, [sheetName |-> SheetConfigs[i].dataSheetName,
                                  outcome |-> r.outcome, gap |-> r.gap,
                                  calls |-> r.calls, chart |-> r.chart,
                                  hits |-> r.hits, fetched |-> r.fetched]),
         dataGaps |-> IF r.gap
                      THEN Append(acc.dataGaps, SheetConfigs[i].dataSheetName)
                      ELSE acc.dataGaps]
  IN  IF i > Len(SheetConfigs) \/ acc.thrown THEN acc
      ELSE forEachConfig(noted(updateSingleChart(acc.cache, acc.sheet, charts[i], clock,
                                                 elapsed, SheetConfigs[i], datas[i],
                                                 resolvers[i], kind)),
                         charts, clock, elapsed, datas, resolvers, kind, i + 1)

\* alerts: the sheet names of the message sent to Slack, <<>> when none is sent
updateAllCharts(c, sh, charts, clock, elapsed, datas, resolvers, kind) ==
  LET notified(done) ==
        [cache |-> done.cache, sheet |-> done.sheet, thrown |-> done.thrown,
         log |-> done.log,
         alerts |-> IF done.thrown THEN <<>> ELSE done.dataGaps,
         slack |-> ~done.thrown /\ Len(done.dataGaps) > 0]
  IN  notified(forEachConfig([cache |-> c, sheet |-> sh, thrown |-> FALSE, log |-> <<>>,
                              dataGaps |-> <<>>], charts, clock, elapsed, datas, resolvers,
                             kind, 1))

----------------------------------------------------------------------------
(* The daily aggregation of updateLongPeriodChart *)

\* offsets of the script time zone from UTC, in seconds (east positive)
ZoneOffsets == {9 * SecPerHour, 0 - 5 * SecPerHour}

\* Utilities.formatDate(timestamp, Session.getScriptTimeZone(), 'yyyy-MM-dd'): the
\* calendar day of the instant in the script time zone, as a day number
dateKeyOf(timestamp) == timestamp \div SecPerDay

\* new Date(dateKey): midnight UTC of the day, as an instant of the model's clock
dateOfKey(dateKey, zone) == dateKey * SecPerDay + zone

\* the filter of the period: timestamp >= startDate && timestamp <= endDate
periodRows(rows, startDate, endDate) ==
  SelectSeq(rows, LAMBDA row : row.timestamp >= startDate /\ row.timestamp <= endDate)

\* the position of the day's entry in the map, 0 when the map has none
entryIndex(entries, dateKey) ==
  LET hits == { k \in 1..Len(entries) : entries[k].dateKey = dateKey }
  IN  IF hits = {} THEN 0 ELSE MinOf(hits)

\* dailyDataMap.set for a new day
newEntry(row, zone) ==
  [dateKey |-> dateKeyOf(row.timestamp), date |-> dateOfKey(dateKeyOf(row.timestamp), zone),
   indoorTempMax |-> row.temp, indoorTempMin |-> row.temp,
   humidityMax |-> row.humidity, humidityMin |-> row.humidity]

\* variant: the minimum is not updated
mergeRow_maxOnly(entry, row) ==
  [entry EXCEPT !.indoorTempMax = IF row.temp > @ THEN row.temp ELSE @,
                !.humidityMax = IF row.humidity > @ THEN row.humidity ELSE @]

\* the four comparisons for a day the map already has
mergeRow(entry, row) ==
  [entry EXCEPT !.indoorTempMax = IF row.temp > @ THEN row.temp ELSE @,
                !.indoorTempMin = IF row.temp < @ THEN row.temp ELSE @,
                !.humidityMax = IF row.humidity > @ THEN row.humidity ELSE @,
                !.humidityMin = IF row.humidity < @ THEN row.humidity ELSE @]

\* the loop over the rows of the period: the map's values in insertion order
RECURSIVE dailyDataMapOf(_, _, _)
dailyDataMapOf(rows, n, zone) ==
  IF n = 0 THEN <<>>
  ELSE LET entries == dailyDataMapOf(rows, n - 1, zone)
           k == entryIndex(entries, dateKeyOf(rows[n].timestamp))
       IN  IF k = 0 THEN Append(entries, newEntry(rows[n], zone))
           ELSE [entries EXCEPT ![k] = mergeRow(@, rows[n])]

\* Array.from(dailyDataMap.values()).sort((a, b) => a.date.getTime() - b.date.getTime())
dailyDataArrayOf(rows, zone) ==
  SortSeq(dailyDataMapOf(rows, Len(rows), zone), LAMBDA a, b : a.date < b.date)

----------------------------------------------------------------------------
(* getDailyOutdoorTemperature *)

\* datetime.setHours(hour, 0, 0, 0) for hour = 0 .. 23 of the day of the date
hoursOfDay(date) ==
  [h \in 1..HoursPerDay |-> (date - (date % SecPerDay)) + (h - 1) * SecPerHour]

\* the hours of the day the weather service has a reading for
PresentHourSets == { {}, {11}, {11, 12}, 0..(HoursPerDay - 1) }

\* the answers to the fetches of the timestamps, given those hours
answersFor(timestamps, presentHours) ==
  [i \in 1..Len(timestamps) |->
     IF (timestamps[i] % SecPerDay) \div SecPerHour \in presentHours THEN "ok" ELSE "nodata"]

\* the second half of a call when the service has readings for those hours
fetchGapsOf(looked, stationId, presentHours) ==
  fetchPhase(looked, stationId, answersFor(looked.missingData, presentHours))

\* a call when the service has readings for those hours
enrichOf(sh, clock, stationId, timestamps, presentHours) ==
  fetchGapsOf(lookupPhase(sh, clock, stationId, timestamps), stationId, presentHours)

\* variant: an absent hour counts as 0 degrees
presentTemps_absentAsZero(tempData) ==
  { IF tempData[i].temperature = Null THEN 0 ELSE tempData[i].temperature[1] :
      i \in 1..Len(tempData) }

\* temps: the temperatures of the items that are not null
presentTemps(tempData) ==
  { tempData[i].temperature[1] :
      i \in { j \in 1..Len(tempData) : tempData[j].temperature # Null } }

getDailyOutdoorTemperature(sh, clock, stationId, date, presentHours) ==
  LET extremes(timestamps, r, temps) ==
        [sheet |-> r.sheet, timestamps |-> timestamps, tempData |-> r.results,
         fetches |-> r.fetches,
         max |-> IF temps = {} THEN Null ELSE Some(MaxOf(temps)),
         min |-> IF temps = {} THEN Null ELSE Some(MinOf(temps))]
      collected(timestamps, r) == extremes(timestamps, r, presentTemps(r.results))
      asked(timestamps) ==
        collected(timestamps, enrichOf(sh, clock, stationId, timestamps, presentHours))
  IN  asked(hoursOfDay(date))

----------------------------------------------------------------------------
(* The charts of a chosen period: updateChartWithDateRange *)

\* the result of a period chart that throws before any request is made
throwsEarly(c, sh, message) ==
  [cache |-> c, sheet |-> sh, thrown |-> message, calls |-> <<>>, daily |-> <<>>]

\* cache.get as the chart functions see it at the clock of the run
expiredAt(c, postalCode, clock) == ~c[postalCode].present \/ clock >= c[postalCode].expiry

\* thrown: "" when the function returns, else the error it throws: "nosheet",
\* "nocolumn", "nodata", or "lookup" for an error of the station lookup
updateShortPeriodChart(c, sh, clock, config, data, startDate, endDate, resolver, presentHours) ==
  LET charted(station, r) ==
        IF station.thrown
        THEN [cache |-> c, sheet |-> sh, thrown |-> "lookup", calls |-> station.calls,
              daily |-> <<>>]
        ELSE [cache |-> station.cache, sheet |-> r.sheet, thrown |-> "",
              calls |-> station.calls \o [i \in 1..Len(r.fetches) |-> "weather"],
              daily |-> <<>>]
      enriched(period, station) ==
        charted(station, enrichOf(sh, clock, station.stationId, timestampsOf(period),
                                  presentHours))
      filtered(period) ==
        IF Len(period) = 0 THEN throwsEarly(c, sh, "nodata")
        ELSE enriched(period, getAmedasStationId(c, clock, config.postalCode,
                                                 expiredAt(c, config.postalCode, clock),
                                                 geoKindOf(resolver), directoryOf(resolver)))
  IN  IF ~data.exists THEN throwsEarly(c, sh, "nosheet")
      ELSE IF \/ findColumnIndex(data.headers, "temperature") = -1
              \/ findColumnIndex(data.headers, "humidity") = -1
      THEN throwsEarly(c, sh, "nocolumn")
      ELSE filtered(periodRows(data.rows, startDate, endDate))

\* a day of the daily chart: the aggregate of the indoor rows and the outdoor
\* extremes, with the instants that were handed to the enricher for them
dailyEntry(entry, max, min, timestamps) ==
  [dateKey |-> entry.dateKey, date |-> entry.date,
   indoorTempMax |-> entry.indoorTempMax, indoorTempMin |-> entry.indoorTempMin,
   humidityMax |-> entry.humidityMax, humidityMin |-> entry.humidityMin,
   outdoorTempMax |-> max, outdoorTempMin |-> min, timestamps |-> timestamps]

\* for (const dailyData of dailyDataArray): the outdoor extremes of the days from
\* the i-th on, each call working on the sheet the previous one left
RECURSIVE outdoorOfDays(_, _, _, _, _, _)
outdoorOfDays(acc, clock, stationId, entries, presentHours, i) ==
  LET noted(d) ==
        [sheet |-> d.sheet,
         daily |-> Append(acc.daily, dailyEntry(entries[i], d.max, d.min, d.timestamps)),
         calls |-> acc.calls \o [k \in 1..Len(d.fetches) |-> "weather"]]
  IN  IF i > Len(entries) THEN acc
      ELSE outdoorOfDays(noted(getDailyOutdoorTemperature(acc.sheet, clock, stationId,
                                                          entries[i].date, presentHours)),
                         clock, stationId, entries, presentHours, i + 1)

\* variant: the station is looked up before the columns are checked
updateLongPeriodChart_lookupFirst(c, sh, clock, config, data, startDate, endDate, showOutdoorTemp, resolver, presentHours, zone) ==
  LET charted(station, outdoor) ==
        [cache |-> station.cache, sheet |-> outdoor.sheet, thrown |-> "",
         calls |-> station.calls \o outdoor.calls, daily |-> outdoor.daily]
      aggregated(station, period) ==
        IF Len(period) = 0
        THEN [cache |-> station.cache, sheet |-> sh, thrown |-> "nodata",
              calls |-> station.calls, daily |-> <<>>]
        ELSE charted(station,
                     outdoorOfDays([sheet |-> sh, daily |-> <<>>, calls |-> <<>>], clock,
                                   station.stationId, dailyDataArrayOf(period, zone),
                                   presentHours, 1))
      lookedUp(station) ==
        IF station.thrown
        THEN [cache |-> c, sheet |-> sh, thrown |-> "lookup", calls |-> station.calls,
              daily |-> <<>>]
        ELSE IF \/ findColumnIndex(data.headers, "temperature") = -1
                \/ findColumnIndex(data.headers, "humidity") = -1
        THEN [cache |-> station.cache, sheet |-> sh, thrown |-> "nocolumn",
              calls |-> station.calls, daily |-> <<>>]
        ELSE aggregated(station, periodRows(data.rows, startDate, endDate))
  IN  IF ~data.exists THEN throwsEarly(c, sh, "nosheet")
      ELSE lookedUp(getAmedasStationId(c, clock, config.postalCode,
                                       expiredAt(c, config.postalCode, clock),
                                       geoKindOf(resolver), directoryOf(resolver)))

updateLongPeriodChart(c, sh, clock, config, data, startDate, endDate, showOutdoorTemp, resolver, presentHours, zone) ==
  LET charted(station, outdoor) ==
        [cache |-> station.cache, sheet |-> outdoor.sheet, thrown |-> "",
         calls |-> station.calls \o outdoor.calls, daily |-> outdoor.daily]
      lookedUp(dailyDataArray, station) ==
        IF station.thrown
        THEN [cache |-> c, sheet |-> sh, thrown |-> "lookup", calls |-> station.calls,
              daily |-> <<>>]
        ELSE charted(station,
                     outdoorOfDays([sheet |-> sh, daily |-> <<>>, calls |-> <<>>], clock,
                                   station.stationId, dailyDataArray, presentHours, 1))
      aggregated(dailyDataArray) ==
        IF ~showOutdoorTemp
        THEN [cache |-> c, sheet |-> sh, thrown |-> "", calls |-> <<>>,
              daily |-> [k \in 1..Len(dailyDataArray) |->
                           dailyEntry(dailyDataArray[k], Null, Null, <<>>)]]
        ELSE lookedUp(dailyDataArray,
                      getAmedasStationId(c, clock, config.postalCode,
                                         expiredAt(c, config.postalCode, clock),
                                         geoKindOf(resolver), directoryOf(resolver)))
      filtered(period) ==
        IF Len(period) = 0 THEN throwsEarly(c, sh, "nodata")
        ELSE aggregated(dailyDataArrayOf(period, zone))
  IN  IF ~data.exists THEN throwsEarly(c, sh, "nosheet")
      ELSE IF \/ findColumnIndex(data.headers, "temperature") = -1
              \/ findColumnIndex(data.headers, "humidity") = -1
      THEN throwsEarly(c, sh, "nocolumn")
      ELSE filtered(periodRows(data.rows, startDate, endDate))

\* new Date(startDateStr): midnight UTC of the day
startDateOf(day, zone) == dateOfKey(day, zone)

\* new Date(endDateStr) and setHours(23, 59, 59, 999): the last second of the local
\* day the instant lies in
endDateOf(day, zone) ==
  (dateOfKey(day, zone) - (dateOfKey(day, zone) % SecPerDay)) + SecPerDay - 1

\* Math.floor((endDate.getTime() - startDate.getTime()) / (1000 * 60 * 60 * 24))
daysDiffOf(startDate, endDate) == (endDate - startDate) \div SecPerDay

\* function: "long" or "short", "" when the sheet index is invalid ("index" is thrown)
updateChartWithDateRange(c, sh, clock, sheetIndex, data, startDay, endDay, showOutdoorTemp, resolver, presentHours, zone) ==
  LET startDate == startDateOf(startDay, zone)
      endDate == endDateOf(endDay, zone)
      config == SheetConfigs[sheetIndex + 1]
  IN  IF sheetIndex < 0 \/ sheetIndex >= Len(SheetConfigs)
      THEN [function |-> "", startDate |-> startDate, endDate |-> endDate,
            result |-> throwsEarly(c, sh, "index")]
      ELSE IF daysDiffOf(startDate, endDate) >= LongPeriodDays
      THEN [function |-> "long", startDate |-> startDate, endDate |-> endDate,
            result |-> updateLongPeriodChart(c, sh, clock, config, data, startDate,
                                             endDate, showOutdoorTemp, resolver,
                                             presentHours, zone)]
      ELSE [function |-> "short", startDate |-> startDate, endDate |-> endDate,
            result |-> updateShortPeriodChart(c, sh, clock, config, data, startDate,
                                              endDate, resolver, presentHours)]

----------------------------------------------------------------------------
(* Project triggers *)

\* handler functions a project trigger can name: the hourly update and another
\* function of the spreadsheet's project
Handlers == {"updateChart", "onFormSubmit"}

\* a trigger as ScriptApp.getProjectTriggers() lists it: its handler function and,
\* for a time-based trigger, its period in hours (0 for a trigger of another kind)
Triggers == [handler : Handlers, everyHours : {0, 1}]

\* variant: only the first trigger of the handler is deleted
deleteTriggersOf_first(ts, handler) ==
  LET hits == { k \in 1..Len(ts) : ts[k].handler = handler }
  IN  IF hits = {} THEN ts
      ELSE [k \in 1..(Len(ts) - 1) |-> IF k < MinOf(hits) THEN ts[k] ELSE ts[k + 1]]

\* triggers.forEach(trigger => { if (trigger.getHandlerFunction() === handler)
\* ScriptApp.deleteTrigger(trigger) })
deleteTriggersOf(ts, handler) == SelectSeq(ts, LAMBDA t : t.handler # handler)

\* ScriptApp.newTrigger('updateChart').timeBased().everyHours(1).create()
newHourlyTrigger(ts, handler) == Append(ts, [handler |-> handler, everyHours |-> 1])

removeTriggers(ts) == deleteTriggersOf(ts, "updateChart")

updateChart(c, sh, charts, clock, elapsed, datas, resolvers, kind) ==
  updateAllCharts(c, sh, charts, clock, elapsed, datas, resolvers, kind)

\* created: whether the platform accepts the new trigger; when create() throws,
\* the function ends after the deletions and before the first run
setupHourlyTrigger(ts, c, sh, charts, clock, elapsed, created, datas, resolvers, kind) ==
  LET firstRun(registered, run) ==
        [triggers |-> registered, registered |-> TRUE,
         thrown |-> run.thrown, cache |-> run.cache, sheet |-> run.sheet]
      register(deleted) ==
        IF ~created
        THEN [triggers |-> deleted, registered |-> FALSE, thrown |-> TRUE,
              cache |-> c, sheet |-> sh]
        ELSE firstRun(newHourlyTrigger(deleted, "updateChart"),
                      updateChart(c, sh, charts, clock, elapsed, datas, resolvers, kind))
  IN  register(deleteTriggersOf(ts, "updateChart"))

----------------------------------------------------------------------------
(* State machine *)

NoOp ==
  [op |-> "init", stationId |-> "", timestamps |-> <<>>, clock |-> 0, results |-> <<>>,
   dataMap |-> <<>>, fetches |-> <<>>, appended |-> <<>>, error |-> FALSE,
   data |-> <<>>, startDate |-> 0, endDate |-> 0, response |-> "", value |-> Null,
   postalCode |-> "", calls |-> <<>>, directory |-> <<>>, before |-> <<>>,
   query |-> [lat |-> 0, lon |-> 0], index |-> 0,
   sources |-> <<>>, resolvers |-> <<>>, charts |-> <<>>, elapsed |-> 0, log |-> <<>>, alerts |-> <<>>, slack |-> FALSE,
   zone |-> 0, max |-> Null, min |-> Null, triggersBefore |-> <<>>, registered |-> FALSE,
   function |-> "", thrown |-> "", source |-> [exists |-> FALSE, headers |-> <<>>, rows |-> <<>>]]

Init ==
  /\ sheet = [exists |-> FALSE, rows |-> <<>>]
  /\ now = Now0
  /\ last = NoOp
  /\ cache = [p \in PostalCodes |-> NoEntry]
  /\ triggers = <<>>

\* the stored result of the last call has been used by its caller
Idle == last.op = "init"

\* the weather service answers the fetches of a call as it answered the fetches
\* of the same hours in the previous call
sameAnswers(fetches, timestamps, responses) ==
  \A j \in 1..Len(fetches), k \in 1..Len(timestamps) :
    fetches[j].roundedTime = roundToHour(timestamps[k]) => fetches[j].response = responses[k]

\* one call of getOutdoorTemperatureWithCache: any call once the previous result
\* has been used, or the previous call made again right away (no time passes in
\* between), the weather service unchanged
Enrich ==
  /\ Idle \/ last.op = "enrich"
  /\ \E stationId \in Stations, timestamps \in SeqsUpTo(Instants, MaxLen) :
    /\ \/ Idle
       \/ /\ last.op = "enrich"
          /\ stationId = last.stationId
          /\ timestamps = last.timestamps
    /\ \E looked \in {lookupPhase(sheet, now, stationId, timestamps)} :
         \E responses \in [1..Len(looked.missingData) -> EnrichKinds] :
           /\ Idle \/ sameAnswers(last.fetches, looked.missingData, responses)
           /\ \E r \in {fetchPhase(looked, stationId, responses)} :
                /\ Len(r.sheet.rows) <= MaxRows
                /\ sheet' = r.sheet
                /\ last' = [NoOp EXCEPT !.op = "enrich", !.stationId = stationId,
                              !.timestamps = timestamps, !.clock = now,
                              !.results = r.results, !.dataMap = r.dataMap,
                              !.fetches = r.fetches, !.appended = r.appended,
                              !.error = r.error]
                /\ now' = now
                /\ UNCHANGED platform

\* the caller takes the result of the last call
Return ==
  /\ ~Idle
  /\ last' = NoOp
  /\ UNCHANGED <<sheet, now>>
  /\ UNCHANGED platform

\* one call of saveOutdoorTemperatureData with one reading, or none
Save ==
  /\ Idle
  /\ \E stationId \in Stations, data \in {<<>>} \cup { <<r>> : r \in Readings } :
    /\ \E sh \in {saveOutdoorTemperatureData(sheet, stationId, data)} :
         /\ Len(sh.rows) <= MaxRows
         /\ sheet' = sh
         /\ last' = [NoOp EXCEPT !.op = "append", !.stationId = stationId, !.clock = now,
                       !.data = data, !.appended = rowsToSave(stationId, data)]
         /\ now' = now
         /\ UNCHANGED platform

WindowEdges == Instants \cup { roundToHour(t) : t \in Instants }

\* one call of loadOutdoorTemperatureData, also right after a save
Query ==
  /\ Idle \/ last.op = "append"
  /\ \E stationId \in Stations, startDate \in WindowEdges, endDate \in WindowEdges :
    /\ startDate <= endDate
    /\ sheet' = getOrCreateOutdoorTempSheet(sheet)
    /\ last' = [NoOp EXCEPT !.op = "query", !.stationId = stationId, !.clock = now,
                  !.startDate = startDate, !.endDate = endDate,
                  !.dataMap = loadOutdoorTemperatureData(sheet, stationId, startDate, endDate)]
    /\ now' = now
    /\ UNCHANGED platform

Next == Enrich \/ Return

Spec == Init /\ [][Next]_vars

\* one call of getTemperatureAtTime
FetchHour ==
  /\ Idle
  /\ \E stationId \in Stations, datetime \in WindowEdges, kind \in ResponseKinds :
    \E r \in {getTemperatureAtTime(stationId, datetime, Respond(kind, stationId, datetime))} :
      /\ last' = [NoOp EXCEPT !.op = "fetch", !.stationId = stationId, !.clock = now,
                    !.startDate = datetime, !.response = kind, !.value = r.value,
                    !.error = r.thrown]
      /\ UNCHANGED <<sheet, now>>
      /\ UNCHANGED platform

NextStore == Save \/ Query \/ FetchHour \/ Return

SpecStore == Init /\ [][NextStore]_vars

\* the next scheduled invocation: a call that follows the previous one at the same
\* time or an hour later, with any arguments, the weather service answering anew
EnrichNext ==
  \E stationId \in Stations, timestamps \in SeqsUpTo(Instants, MaxLen),
     clock \in {now, now + SecPerHour} :
    /\ last.op = "enrich"
    /\ clock <= Now0 + MaxTicks * SecPerHour
    /\ \E looked \in {lookupPhase(sheet, clock, stationId, timestamps)} :
         \E responses \in [1..Len(looked.missingData) -> EnrichKinds] :
           \E r \in {fetchPhase(looked, stationId, responses)} :
             /\ Len(r.sheet.rows) <= MaxRows
             /\ sheet' = r.sheet
             /\ last' = [NoOp EXCEPT !.op = "enrich", !.stationId = stationId,
                           !.timestamps = timestamps, !.clock = clock,
                           !.results = r.results, !.dataMap = r.dataMap,
                           !.fetches = r.fetches, !.appended = r.appended,
                           !.error = r.error]
             /\ now' = clock
             /\ UNCHANGED platform

NextRetry == Enrich \/ EnrichNext \/ Return

SpecRetry == Init /\ [][NextRetry]_vars

\* one call of getAmedasStationId, also the call that is made again for the postal
\* code of a call that threw; `before` is the cache the call started from
ResolveStation ==
  /\ Idle \/ (last.op = "station" /\ last.error)
  /\ \E postalCode \in IF Idle THEN PostalCodes ELSE {last.postalCode} :
     \E geoKind \in GeoKinds, directory \in DirectoryResponses :
    /\ \E expired \in expiredOutcomes(cache, postalCode, now) :
         \E r \in {getAmedasStationId(cache, now, postalCode, expired, geoKind, directory)} :
           /\ cache' = r.cache
           /\ last' = [NoOp EXCEPT !.op = "station", !.postalCode = postalCode,
                         !.clock = now, !.stationId = r.stationId, !.calls = r.calls,
                         !.error = r.thrown, !.before = cache]
           /\ UNCHANGED <<sheet, now, triggers>>

\* half a day passes between two runs
HalfDayPasses ==
  /\ Idle
  /\ now < Now0 + MaxHalfDays * (SecPerDay \div 2)
  /\ now' = now + SecPerDay \div 2
  /\ UNCHANGED <<sheet, last, cache, triggers>>

NextStation == ResolveStation \/ HalfDayPasses \/ Return

SpecStation == Init /\ [][NextStation]_vars

\* the coordinates asked for: the geocoded postal codes and a point between stations
QueryPoints == { Geocode(p) : p \in PostalCodes } \cup { [lat |-> 15, lon |-> 30] }

\* one call of findNearestAmedasStation
FindNearest ==
  /\ Idle
  /\ \E query \in QueryPoints, response \in DirectoryResponses :
    \E r \in {findNearestAmedasStation(query.lat, query.lon, response)} :
      /\ last' = [NoOp EXCEPT !.op = "nearest", !.query = query,
                    !.response = response.fetch, !.directory = response.stations,
                    !.stationId = r.id, !.index = r.index, !.error = r.thrown]
      /\ UNCHANGED <<sheet, now, cache, triggers>>

NextNearest == FindNearest \/ Return

SpecNearest == Init /\ [][NextNearest]_vars

\* one run of updateAllCharts over the data sheets and the chart sheets as they
\* are at the run
UpdateAllCharts ==
  /\ Idle
  /\ \E datas \in [1..Len(SheetConfigs) -> HourlySheets],
        resolvers \in [1..Len(SheetConfigs) -> ResolverKinds],
        charts \in {ChartSheets},
        elapsed \in {0, MaxElapsed}, kind \in {"nodata", "ok"} :
    /\ \E r \in {updateAllCharts(cache, sheet, charts, now, elapsed, datas, resolvers,
                                  kind)} :
         /\ Len(r.sheet.rows) <= MaxRows
         /\ sheet' = r.sheet
         /\ cache' = r.cache
         /\ last' = [NoOp EXCEPT !.op = "charts", !.clock = now, !.sources = datas,
                       !.resolvers = resolvers, !.charts = charts, !.elapsed = elapsed,
                       !.response = kind, !.log = r.log,
                       !.alerts = r.alerts, !.slack = r.slack, !.error = r.thrown]
         /\ UNCHANGED <<now, triggers>>

NextCharts == UpdateAllCharts \/ Return

SpecCharts == Init /\ [][NextCharts]_vars

\* rows of a data sheet for the daily charts: three instants on two days
PeriodRows ==
  [timestamp : {8 * SecPerHour, 20 * SecPerHour, SecPerDay + 14 * SecPerHour},
   temp : {20, 22, 28}, humidity : {40, 60}]

\* the periods asked for: both days, or the second day
Periods ==
  { [startDate |-> 0, endDate |-> 2 * SecPerDay - 1],
    [startDate |-> SecPerDay, endDate |-> 2 * SecPerDay - 1] }

\* the daily aggregation of the rows of a period, as updateLongPeriodChart does it
AggregateDaily ==
  /\ Idle
  /\ \E rows \in SeqsUpTo(PeriodRows, MaxPeriodRows), period \in Periods, zone \in ZoneOffsets :
       last' = [NoOp EXCEPT !.op = "aggregate", !.data = rows, !.zone = zone,
                  !.startDate = period.startDate, !.endDate = period.endDate,
                  !.results = dailyDataArrayOf(
                                periodRows(rows, period.startDate, period.endDate), zone)]
  /\ UNCHANGED <<sheet, now, cache, triggers>>

NextAggregate == AggregateDaily \/ Return

SpecAggregate == Init /\ [][NextAggregate]_vars

\* the days asked for: a day before the recent window, the day the window starts
\* in, and the day of the clock
DailyDates == {10 * SecPerHour, Boundary0, Now0}

\* one call of getDailyOutdoorTemperature
DailyOutdoor ==
  /\ Idle
  /\ \E stationId \in Stations, date \in DailyDates, presentHours \in PresentHourSets :
    /\ \E r \in {getDailyOutdoorTemperature(sheet, now, stationId, date, presentHours)} :
         /\ Len(r.sheet.rows) <= MaxRows
         /\ sheet' = r.sheet
         /\ last' = [NoOp EXCEPT !.op = "daily", !.stationId = stationId, !.clock = now,
                       !.startDate = date, !.timestamps = r.timestamps,
                       !.results = r.tempData, !.fetches = r.fetches,
                       !.max = r.max, !.min = r.min]
         /\ UNCHANGED <<now, cache, triggers>>

NextDaily == DailyOutdoor \/ Return

SpecDaily == Init /\ [][NextDaily]_vars

\* a trigger is installed by hand in the script editor
InstallTrigger ==
  /\ Idle
  /\ Len(triggers) < MaxTriggers
  /\ \E t \in Triggers : triggers' = Append(triggers, t)
  /\ UNCHANGED <<sheet, now, last, cache>>

\* one run of setupHourlyTrigger: the deletions, the registration and the first
\* update, which finds the data sheets of all sources in the same condition
SetupHourlyTrigger ==
  /\ Idle
  /\ \E created \in BOOLEAN, data \in DataSheets, resolver \in ResolverKinds,
        kind \in {"nodata", "ok"} :
       \E r \in {setupHourlyTrigger(triggers, cache, sheet,
                                    ChartSheets,
                                    now, 0, created,
                                    [i \in 1..Len(SheetConfigs) |-> data],
                                    [i \in 1..Len(SheetConfigs) |-> resolver], kind)} :
         /\ Len(r.sheet.rows) <= MaxRows
         /\ Len(r.triggers) <= MaxTriggers
         /\ triggers' = r.triggers
         /\ sheet' = r.sheet
         /\ cache' = r.cache
         /\ last' = [NoOp EXCEPT !.op = "setup", !.clock = now, !.triggersBefore = triggers,
                       !.registered = r.registered, !.error = r.thrown]
         /\ UNCHANGED now

\* one run of removeTriggers
RemoveTriggers ==
  /\ Idle
  /\ triggers' = removeTriggers(triggers)
  /\ last' = [NoOp EXCEPT !.op = "remove", !.clock = now, !.triggersBefore = triggers]
  /\ UNCHANGED <<sheet, now, cache>>

NextTriggers == InstallTrigger \/ SetupHourlyTrigger \/ RemoveTriggers \/ Return

SpecTriggers == Init /\ [][NextTriggers]_vars

\* the days the sidebar asks for: four weeks before the first row, the day of the
\* first row, the day of the clock
RangeStartDays == {0 - 28, 0, 3}

RangeEndDays == {3}

\* one call of updateChartWithDateRange from the sidebar
UpdateChartWithDateRange ==
  /\ Idle
  /\ \E sheetIndex \in 0..Len(SheetConfigs), data \in DataSheets,
        startDay \in RangeStartDays, endDay \in RangeEndDays,
        showOutdoorTemp \in BOOLEAN, resolver \in ResolverKinds,
        presentHours \in PresentHourSets, zone \in ZoneOffsets :
       \E r \in {updateChartWithDateRange(cache, sheet, now, sheetIndex, data, startDay,
                                          endDay, showOutdoorTemp, resolver,
                                          presentHours, zone)} :
         /\ Len(r.result.sheet.rows) <= MaxRows
         /\ sheet' = r.result.sheet
         /\ cache' = r.result.cache
         /\ last' = [NoOp EXCEPT !.op = "range", !.clock = now, !.index = sheetIndex,
                       !.source = data, !.zone = zone, !.function = r.function,
                       !.startDate = r.startDate, !.endDate = r.endDate,
                       !.thrown = r.result.thrown, !.error = r.result.thrown # "",
                       !.calls = r.result.calls, !.results = r.result.daily]
         /\ UNCHANGED <<now, triggers>>

\* the hourly update and the charts of a chosen period
NextRange == UpdateAllCharts \/ UpdateChartWithDateRange \/ Return

SpecRange == Init /\ [][NextRange]_vars

\* every operation that touches the sheet, in any order
NextAll == Enrich \/ Save \/ Query \/ Return

SpecAll == Init /\ [][NextAll]_vars

----------------------------------------------------------------------------
(* Observations of the last call, as its caller and the sheet see them *)

EnrichReturned == last.op = "enrich" /\ ~last.error

\* the i-th requested timestamp was served from the sheet
wasHit(i) == roundToHour(last.timestamps[i]) \in DOMAIN last.dataMap

\* a fetch was issued for the requested instant t
wasFetched(t) == \E k \in 1..Len(last.fetches) : last.fetches[k].timestamp = t

\* the first instant of the recent window of the last call, in seconds
windowStart == last.clock - RecentDays * SecPerDay

\* the i-th requested timestamp missed the sheet inside the recent window
wasGap(i) == ~wasHit(i) /\ last.timestamps[i] >= windowStart

\* the positions of the gaps of the last call, in input order
gapPositions ==
  SelectSeq([i \in 1..Len(last.timestamps) |-> i], LAMBDA i : wasGap(i))

isPrefix(s, t) == Len(s) <= Len(t) /\ SubSeq(t, 1, Len(s)) = s

----------------------------------------------------------------------------
(* C1 *)

\* C1: for every non-empty timestamp sequence passed to
\* getOutdoorTemperatureWithCache, whatever the sheet holds and whatever the
\* fetches return, the result has the length of the input and result[i].timestamp
\* is input[i] for every i.
C1_ResultMirrorsInput ==
  (last.op = "enrich" /\ Len(last.timestamps) > 0) =>
    /\ Len(last.results) = Len(last.timestamps)
    /\ \A i \in 1..Len(last.timestamps) : last.results[i].timestamp = last.timestamps[i]

\* a call of two timestamps, one served from the sheet and one fetched
C1_Witness ==
  /\ last.op = "enrich"
  /\ Len(last.timestamps) >= 2
  /\ Len(last.fetches) >= 1
  /\ \E i \in 1..Len(last.timestamps) : wasHit(i)

----------------------------------------------------------------------------
(* C2 *)

\* C2: every requested timestamp whose normalized hour has a stored reading for
\* the requested station is a hit: the result carries a stored temperature of that
\* hour and no fetch is issued for it, wherever in the hour the stored row's
\* timestamp and the requested timestamps lie.  (The sheet of the formula is the
\* sheet the call starts from.)
C2_StoredHourIsHit ==
  [][ last'.op = "enrich" =>
        \A i \in 1..Len(last'.timestamps) :
          LET stored == { sheet.rows[n].temperature : n \in
                            { m \in 1..Len(sheet.rows) :
                                /\ sheet.rows[m].stationId = last'.stationId
                                /\ roundToHour(sheet.rows[m].timestamp)
                                     = roundToHour(last'.timestamps[i]) } }
          IN  stored # {} =>
                /\ ~last'.error
                /\ last'.results[i].temperature \in { Some(v) : v \in stored }
                /\ \A k \in 1..Len(last'.fetches) :
                     last'.fetches[k].timestamp # last'.timestamps[i]
    ]_vars

----------------------------------------------------------------------------
(* C3 *)

\* the hours of the rows a call persisted
persistedHours(call) ==
  { roundToHour(call.appended[k].timestamp) : k \in 1..Len(call.appended) }

\* the weather service gave one answer per hour over the fetches of both calls
unchangedAnswers(first, second) ==
  \A f \in Range(first.fetches) \cup Range(second.fetches),
     g \in Range(first.fetches) \cup Range(second.fetches) :
    f.roundedTime = g.roundedTime => f.response = g.response

\* C3: idempotence.  A call made twice in succession with the same station and the
\* same timestamps, no time passing and the weather service unchanged, returns the
\* same results both times, and the second call fetches no hour the first persisted.
C3_Idempotent ==
  [][ ( /\ last.op = "enrich" /\ ~last.error
        /\ last'.op = "enrich"
        /\ last'.stationId = last.stationId
        /\ last'.timestamps = last.timestamps
        /\ last'.clock = last.clock
        /\ unchangedAnswers(last, last') )
      => /\ last'.results = last.results
         /\ \A k \in 1..Len(last'.fetches) :
              last'.fetches[k].roundedTime \notin persistedHours(last)
    ]_vars

----------------------------------------------------------------------------
(* C4 *)

\* C4: store round trip.  After a reading with a present temperature is appended
\* for a station, a query for that station over any window [start, end] that
\* contains the reading's normalized hour maps that hour to the appended temperature.
C4_RoundTrip ==
  [][ (last.op = "append" /\ last'.op = "query" /\ last'.stationId = last.stationId) =>
        \A i \in 1..Len(last.data) :
          LET hour == roundToHour(last.data[i].timestamp)
          IN  ( /\ last.data[i].temperature # Null
                /\ last'.startDate <= hour
                /\ hour <= last'.endDate )
              => /\ hour \in DOMAIN last'.dataMap
                 /\ Some(last'.dataMap[hour]) = last.data[i].temperature
    ]_vars

----------------------------------------------------------------------------
(* C5 *)

\* C5: on a miss of the sheet, a timestamp exactly at now - 2 days is inside the
\* recent window and is fetched; a timestamp one second older is outside it, comes
\* back absent and is not fetched.
C5_RecentWindowBoundary ==
  EnrichReturned =>
    \A i \in 1..Len(last.timestamps) :
      ~wasHit(i) =>
        /\ last.timestamps[i] = last.clock - RecentDays * SecPerDay
             => wasFetched(last.timestamps[i])
        /\ last.timestamps[i] = last.clock - RecentDays * SecPerDay - 1
             => /\ last.results[i].temperature = Null
                /\ ~wasFetched(last.timestamps[i])

\* a call that asked for both instants and missed the sheet on both
C5_Witness ==
  /\ EnrichReturned
  /\ \E i \in 1..Len(last.timestamps), j \in 1..Len(last.timestamps) :
       /\ ~wasHit(i) /\ last.timestamps[i] = last.clock - RecentDays * SecPerDay
       /\ ~wasHit(j) /\ last.timestamps[j] = last.clock - RecentDays * SecPerDay - 1

----------------------------------------------------------------------------
(* C6 *)

\* C6: after any sequence of calls the sheet has at most one row per
\* (stationId, normalized hour).
C6_OneRowPerStationHour ==
  \A m \in 1..Len(sheet.rows), n \in 1..Len(sheet.rows) :
    ( /\ sheet.rows[m].stationId = sheet.rows[n].stationId
      /\ roundToHour(sheet.rows[m].timestamp) = roundToHour(sheet.rows[n].timestamp) )
    => m = n

----------------------------------------------------------------------------
(* C7 *)

\* C7: every row a call writes to the sheet has its timestamp at the top of the
\* hour, whatever the minutes and seconds of the requested timestamp.
C7_WrittenRowsNormalized ==
  last.op = "enrich" =>
    \A k \in 1..Len(last.appended) : last.appended[k].timestamp % SecPerHour = 0

----------------------------------------------------------------------------
(* C8 *)

\* C8: the sheet is append-only: no step removes the sheet or changes or removes a
\* data row; the rows before a step are a prefix of the rows after it.
C8_AppendOnly ==
  [][ /\ sheet.exists => sheet'.exists
      /\ isPrefix(sheet.rows, sheet'.rows) ]_vars

\* a call that appended rows below rows already there
C8_Witness ==
  /\ last.op = "enrich"
  /\ Len(last.appended) >= 1
  /\ Len(sheet.rows) > Len(last.appended)

----------------------------------------------------------------------------
(* C9 *)

\* C9: per-hour failure isolation.  When the fetch of one gap yields no data (a
\* non-success status, or no reading for the station), the
\* call still returns, every gap is fetched, in input order, and each gap whose
\* fetch gave a temperature has it at its position of the result and in a row
\* written to the sheet; only the gaps whose fetch gave none are absent.
C9_FailureIsolation ==
  ( /\ last.op = "enrich"
    /\ \E k \in 1..Len(last.fetches) : last.fetches[k].response \in {"status", "nodata"} )
  => /\ ~last.error
     /\ Len(last.fetches) = Len(gapPositions)
     /\ \A k \in 1..Len(gapPositions) :
          LET i == gapPositions[k]
          IN  /\ last.fetches[k].timestamp = last.timestamps[i]
              /\ last.results[i].temperature = last.fetches[k].temperature
              /\ last.fetches[k].temperature # Null =>
                   \E n \in 1..Len(last.appended) :
                     /\ roundToHour(last.appended[n].timestamp)
                          = roundToHour(last.timestamps[i])
                     /\ last.appended[n].stationId = last.stationId
                     /\ Some(last.appended[n].temperature) = last.fetches[k].temperature

----------------------------------------------------------------------------
(* C10 *)

failedHard(kind) == kind \in {"throws", "malformed"}

----------------------------------------------------------------------------
(* C11 *)

\* the fetches the call made for the hour of t all came back absent
hourCameBackAbsent(call, t) ==
  /\ \E k \in 1..Len(call.fetches) : call.fetches[k].timestamp = t
  /\ \A k \in 1..Len(call.fetches) :
       call.fetches[k].roundedTime = roundToHour(t) => call.fetches[k].temperature = Null

\* the call fetched a temperature for the instant t
fetchedPresent(call, t) ==
  \E k \in 1..Len(call.fetches) :
    call.fetches[k].timestamp = t /\ call.fetches[k].temperature # Null

\* the call issued a fetch for the instant t
fetchedBy(call, t) == \E k \in 1..Len(call.fetches) : call.fetches[k].timestamp = t

\* C11: a gap hour whose fetch came back absent is not persisted, and the next
\* call that requests the same timestamp while it is still inside the recent
\* window fetches it again; a timestamp whose fetch gave a temperature is
\* persisted, and the next call that requests it does not fetch it.
C11_RetryUntilPresent ==
  [][ ( /\ last.op = "enrich" /\ ~last.error
        /\ last'.op = "enrich"
        /\ last'.stationId = last.stationId )
      => /\ \A k \in 1..Len(last.fetches) :
              hourCameBackAbsent(last, last.fetches[k].timestamp) =>
                last.fetches[k].roundedTime \notin persistedHours(last)
         /\ \A i \in 1..Len(last'.timestamps) :
              LET t == last'.timestamps[i]
              IN  /\ ( /\ hourCameBackAbsent(last, t)
                        /\ isRecent(t, twoDaysAgoOf(last'.clock)) )
                      => fetchedBy(last', t)
                  /\ fetchedPresent(last, t) =>
                        /\ \E n \in 1..Len(last.appended) : last.appended[n].timestamp = t
                        /\ ~fetchedBy(last', t)
    ]_vars

----------------------------------------------------------------------------
(* C12 *)

\* the i-th requested instant is requested once in the last call
requestedOnce(i) ==
  \A j \in 1..Len(last.timestamps) : last.timestamps[j] = last.timestamps[i] => j = i

\* the result at position i is the temperature of the fetch issued for the i-th
\* requested timestamp
holdsOwnFetch(i) ==
  /\ last.results[i].timestamp = last.timestamps[i]
  /\ \E k \in 1..Len(last.fetches) :
       /\ last.fetches[k].timestamp = last.timestamps[i]
       /\ last.fetches[k].roundedTime = roundToHour(last.timestamps[i])
       /\ last.results[i].temperature = last.fetches[k].temperature

----------------------------------------------------------------------------
(* C13 *)

\* the entry the call found for its postal code was there and not expired
foundUnexpired ==
  /\ last.before[last.postalCode].present
  /\ last.clock < last.before[last.postalCode].expiry

\* the call found no entry for its postal code, or one past its expiry
foundNothing ==
  \/ ~last.before[last.postalCode].present
  \/ last.clock > last.before[last.postalCode].expiry

\* C13: with an unexpired entry for the postal code, getAmedasStationId returns
\* the cached station id and calls neither the geocoder nor the station directory;
\* on a miss or after expiry the geocoder and the directory are each called once,
\* and the station id they give is stored under the postal code with an expiry 24
\* hours ahead and returned.
C13_StationCache ==
  last.op = "station" =>
    /\ foundUnexpired =>
         /\ ~last.error
         /\ last.stationId = last.before[last.postalCode].value
         /\ last.calls = <<>>
         /\ cache[last.postalCode] = last.before[last.postalCode]
    /\ (foundNothing /\ ~last.error) =>
         /\ last.calls = <<"geocoder", "directory">>
         /\ cache[last.postalCode] =
              [present |-> TRUE, value |-> last.stationId,
               expiry |-> last.clock + 24 * SecPerHour]
         /\ last.stationId \in DirectoryIds
    /\ (foundNothing /\ last.error) =>
         /\ Len(last.calls) >= 1
         /\ last.calls[1] = "geocoder"
         /\ cache[last.postalCode] = last.before[last.postalCode]
    /\ \A p \in PostalCodes \ {last.postalCode} : cache[p] = last.before[p]

\* a call that found an expired entry and replaced it
C13_Witness ==
  /\ last.op = "station"
  /\ last.before[last.postalCode].present
  /\ last.clock > last.before[last.postalCode].expiry
  /\ ~last.error
  /\ cache[last.postalCode].expiry = last.clock + 24 * SecPerHour

----------------------------------------------------------------------------
(* C17 *)

\* the distance the last call computed for the i-th station of its directory
computedDistance(i) == distanceTo(last.query.lat, last.query.lon, last.directory, i)

\* C17: findNearestAmedasStation returns a station whose computed distance to the
\* query is minimal over the whole directory, and among several stations at that
\* distance the one that comes first in the directory's iteration order.
C17_NearestFirstWins ==
  (last.op = "nearest" /\ last.response = "ok" /\ Len(last.directory) > 0) =>
    /\ ~last.error
    /\ last.index \in 1..Len(last.directory)
    /\ last.stationId = last.directory[last.index].id
    /\ \A j \in 1..Len(last.directory) : computedDistance(last.index) <= computedDistance(j)
    /\ \A j \in 1..(last.index - 1) : computedDistance(j) > computedDistance(last.index)

\* two stations at different places and at the same distance, the nearer ones of
\* the directory: the first is returned
C17_Witness ==
  /\ last.op = "nearest"
  /\ Len(last.directory) = 2
  /\ last.directory[1].lon # last.directory[2].lon
  /\ computedDistance(1) = computedDistance(2)
  /\ last.index = 1

----------------------------------------------------------------------------
(* C14 *)

\* the i-th source of the last run has data rows and its last row is more than 90
\* minutes older than the clock of the run
staleSource(i) ==
  /\ last.sources[i].exists
  /\ Len(last.sources[i].rows) > 0
  /\ last.clock - last.sources[i].rows[Len(last.sources[i].rows)].timestamp
       > StaleMinutes * SecPerMinute

\* the update of the i-th source met a hard error: a missing column, or a failure
\* of the geocoder or of the station directory it called
hardFailure(i) ==
  \/ /\ last.sources[i].exists
     /\ \/ findColumnIndex(last.sources[i].headers, "temperature") = -1
        \/ findColumnIndex(last.sources[i].headers, "humidity") = -1
  \/ /\ last.log[i].calls = <<"geocoder">>
     /\ last.resolvers[i] = "geocoderFails"
  \/ /\ last.log[i].calls = <<"geocoder", "directory">>
     /\ last.resolvers[i] = "directoryFails"

\* the sources of the last run, in order, whose update succeeded and was stale
staleUpdated ==
  LET idx == SelectSeq([i \in 1..Len(last.log) |-> i],
                       LAMBDA i : last.log[i].outcome = "updated" /\ staleSource(i))
  IN  [k \in 1..Len(idx) |-> last.log[idx[k]].sheetName]

\* C14: in a run of updateAllCharts a source whose update fails with a hard error
\* is logged; the run goes on: every configured source is processed, in order, and
\* the alert step covers the sources whose update succeeded.
C14_SourceIsolation ==
  last.op = "charts" =>
    /\ ~last.error
    /\ Len(last.log) = Len(SheetConfigs)
    /\ \A i \in 1..Len(last.log) :
         /\ last.log[i].sheetName = SheetConfigs[i].dataSheetName
         /\ hardFailure(i) => last.log[i].outcome = "error"
    /\ last.alerts = staleUpdated
    /\ last.slack = (Len(staleUpdated) > 0)

\* the first source fails at the geocoder, the second is updated and reported stale
C14_Witness ==
  /\ last.op = "charts"
  /\ last.log[1].outcome = "error"
  /\ last.log[1].calls = <<"geocoder">>
  /\ last.log[2].outcome = "updated"
  /\ last.alerts = <<"d2">>

----------------------------------------------------------------------------
(* C16 *)

\* C16: in every run of updateAllCharts each configured source that has data rows
\* and whose most recent row is more than 90 minutes older than the clock is named
\* in the alert the run sends, however old that row is.
C16_StaleSourceAlerted ==
  last.op = "charts" =>
    \A i \in 1..Len(SheetConfigs) :
      staleSource(i) =>
        /\ last.slack
        /\ \E k \in 1..Len(last.alerts) : last.alerts[k] = SheetConfigs[i].dataSheetName

----------------------------------------------------------------------------
(* C18 *)

\* the rows of the last aggregation that lie in its period
rowsInPeriod == periodRows(last.data, last.startDate, last.endDate)

\* the values of a column over the rows of the period on the day of the key
valuesOn(dateKey, column) ==
  { IF column = "temp" THEN rowsInPeriod[i].temp ELSE rowsInPeriod[i].humidity :
      i \in { j \in 1..Len(rowsInPeriod) : dateKeyOf(rowsInPeriod[j].timestamp) = dateKey } }

\* C18: the daily aggregation has exactly one entry per calendar day with at least
\* one raw row in the period, sorted ascending by date, none for a day without
\* rows, and each entry's indoorTempMax/Min and humidityMax/Min are the maximum
\* and minimum over the raw rows of its day.
C18_DailyAggregation ==
  last.op = "aggregate" =>
    /\ { last.results[k].dateKey : k \in 1..Len(last.results) }
         = { dateKeyOf(rowsInPeriod[i].timestamp) : i \in 1..Len(rowsInPeriod) }
    /\ \A k \in 1..Len(last.results), m \in 1..Len(last.results) :
         /\ last.results[k].dateKey = last.results[m].dateKey => k = m
         /\ k < m => /\ last.results[k].date < last.results[m].date
                     /\ last.results[k].dateKey < last.results[m].dateKey
    /\ \A k \in 1..Len(last.results) :
         LET e == last.results[k]
         IN  /\ e.indoorTempMax = MaxOf(valuesOn(e.dateKey, "temp"))
             /\ e.indoorTempMin = MinOf(valuesOn(e.dateKey, "temp"))
             /\ e.humidityMax = MaxOf(valuesOn(e.dateKey, "humidity"))
             /\ e.humidityMin = MinOf(valuesOn(e.dateKey, "humidity"))

\* rows 20, 28, 22 on one day: maximum 28, minimum 20
C18_Witness ==
  /\ last.op = "aggregate"
  /\ Len(last.data) = 3
  /\ \A i \in 1..3 : dateKeyOf(last.data[i].timestamp) = 0
  /\ last.data[1].temp = 20 /\ last.data[2].temp = 28 /\ last.data[3].temp = 22
  /\ Len(last.results) = 1
  /\ last.results[1].indoorTempMax = 28
  /\ last.results[1].indoorTempMin = 20

----------------------------------------------------------------------------
(* C19 *)

\* the temperatures present among the 24 hourly results of the last call
presentOfDay ==
  { last.results[i].temperature[1] :
      i \in { j \in 1..Len(last.results) : last.results[j].temperature # Null } }

\* C19: getDailyOutdoorTemperature asks for the 24 hours of the day, and its max
\* and min are the maximum and minimum over the hourly results that are present;
\* when all 24 are absent, both are absent.
C19_DailyOutdoor ==
  last.op = "daily" =>
    /\ Len(last.results) = HoursPerDay
    /\ presentOfDay = {} => (last.max = Null /\ last.min = Null)
    /\ presentOfDay # {} =>
         /\ last.max = Some(MaxOf(presentOfDay))
         /\ last.min = Some(MinOf(presentOfDay))

\* a day with two hours present and the others absent
C19_Witness ==
  /\ last.op = "daily"
  /\ Cardinality({ j \in 1..Len(last.results) : last.results[j].temperature # Null }) = 2
  /\ last.max # last.min

----------------------------------------------------------------------------
(* C20 *)

\* the triggers of a list that name the handler
triggersOf(ts, handler) == SelectSeq(ts, LAMBDA t : t.handler = handler)

\* the triggers of a list that name another handler
otherTriggers(ts, handler) == SelectSeq(ts, LAMBDA t : t.handler # handler)

\* C20: after a call of setupHourlyTrigger or removeTriggers at most one trigger
\* with handler 'updateChart' exists; after setupHourlyTrigger has registered there
\* is exactly one, and it is hourly; after removeTriggers there is none; the
\* triggers with other handlers are the ones there were before the call.
C20_TriggerRegistration ==
  last.op \in {"setup", "remove"} =>
    /\ Len(triggersOf(triggers, "updateChart")) <= 1
    /\ (last.op = "setup" /\ last.registered) =>
         triggersOf(triggers, "updateChart") = <<[handler |-> "updateChart", everyHours |-> 1]>>
    /\ last.op = "remove" => triggersOf(triggers, "updateChart") = <<>>
    /\ otherTriggers(triggers, "updateChart") = otherTriggers(last.triggersBefore, "updateChart")

\* setupHourlyTrigger has registered where two 'updateChart' triggers and a trigger
\* of another handler were installed
C20_Witness ==
  /\ last.op = "setup"
  /\ last.registered
  /\ Len(triggersOf(last.triggersBefore, "updateChart")) = 2
  /\ Len(otherTriggers(triggers, "updateChart")) = 1

----------------------------------------------------------------------------
(* C15 *)

\* the header row of the data sheet has no column that contains the temperature name
noTemperatureColumn(data) ==
  data.exists /\ findColumnIndex(data.headers, "temperature") = -1

\* C15: when the header row of a data source has no temperature column, the update
\* of the source fails with the not-found error before any request to the geocoder,
\* the station directory or the weather service, in updateSingleChart (where the
\* error is caught and logged), updateShortPeriodChart and updateLongPeriodChart.
C15_MissingColumnBeforeNetwork ==
  /\ last.op = "charts" =>
       \A i \in 1..Len(last.log) :
         noTemperatureColumn(last.sources[i]) =>
           last.log[i].outcome = "error" /\ last.log[i].calls = <<>>
  /\ (last.op = "range" /\ last.function # "" /\ noTemperatureColumn(last.source)) =>
       last.thrown = "nocolumn" /\ last.calls = <<>>

\* the daily chart of a period with rows was asked for with the outdoor
\* temperature, the resolver was ready to answer, and the missing column ended it
C15_Witness ==
  /\ last.op = "range"
  /\ last.function = "long"
  /\ noTemperatureColumn(last.source)
  /\ Len(periodRows(last.source.rows, last.startDate, last.endDate)) > 0
  /\ last.thrown = "nocolumn"

----------------------------------------------------------------------------
(* C21 *)

\* C21: in one call of getOutdoorTemperatureWithCache the fetches are, in input
\* order, the requested timestamps that the lookup of the call missed and that lie
\* inside the recent window, one fetch per such timestamp (two timestamps of one
\* hour are both fetched, each for its rounded hour); no fetch is issued for a
\* timestamp the lookup served or for one older than the window.
C21_OneFetchPerGap ==
  EnrichReturned =>
    /\ Len(last.fetches) = Len(gapPositions)
    /\ \A k \in 1..Len(gapPositions) :
         /\ last.fetches[k].timestamp = last.timestamps[gapPositions[k]]
         /\ last.fetches[k].roundedTime = roundToHour(last.timestamps[gapPositions[k]])
    /\ \A i \in 1..Len(last.timestamps) :
         ~wasGap(i) /\ (\A j \in 1..Len(last.timestamps) :
                          last.timestamps[j] = last.timestamps[i] => ~wasGap(j))
           => ~wasFetched(last.timestamps[i])

\* two distinct instants of one hour were both fetched
C21_Witness ==
  /\ EnrichReturned
  /\ Len(last.fetches) = 2
  /\ last.fetches[1].timestamp # last.fetches[2].timestamp
  /\ last.fetches[1].roundedTime = last.fetches[2].roundedTime

----------------------------------------------------------------------------
(* C22 *)

\* C22: a call of getOutdoorTemperatureWithCache changes the rows of the sheet by
\* one block appended below them: the gap results that have a temperature, in
\* fetch order; a call without a gap, or whose fetches all came back absent,
\* leaves the rows as they were.
C22_OneAppendOfPresent ==
  [][ (last'.op = "enrich" /\ ~last'.error) =>
        LET rowsOf(sh) == IF sh.exists THEN sh.rows ELSE <<>>
            present == SelectSeq(last'.fetches, LAMBDA item : item.temperature # Null)
        IN  rowsOf(sheet') =
              rowsOf(sheet) \o
                [k \in 1..Len(present) |->
                   [timestamp |-> present[k].timestamp,
                    stationId |-> last'.stationId,
                    temperature |-> present[k].temperature[1]]] ]_vars

\* a call with one fetch that gave a temperature and one that gave none
C22_Witness ==
  /\ EnrichReturned
  /\ Len(last.fetches) = 2
  /\ Len(SelectSeq(last.fetches, LAMBDA item : item.temperature # Null)) = 1
  /\ Len(last.appended) = 1
  /\ Len(sheet.rows) >= 1
  /\ sheet.rows[Len(sheet.rows)] = last.appended[1]

----------------------------------------------------------------------------
(* C26 *)

\* C26: when a call requests the same instant more than once, the instant is a gap
\* and its fetches give a temperature, every occurrence of the instant in the
\* result carries that temperature.
C26_EveryOccurrenceFilled ==
  EnrichReturned =>
    \A i \in 1..Len(last.timestamps) :
      ( /\ ~requestedOnce(i)
        /\ wasGap(i)
        /\ \A k \in 1..Len(last.fetches) :
             last.fetches[k].timestamp = last.timestamps[i] =>
               last.fetches[k].temperature # Null )
      => last.results[i].temperature # Null

----------------------------------------------------------------------------
(* C25 *)

\* C25: once a call of getOutdoorTemperatureWithCache has written a row for a
\* station and a timestamp t, every later call for that station whose request
\* contains the instant t gets the written temperature at the positions of t and
\* issues no fetch for t, whatever else it requests and whatever the clock is.
C25_PersistedIsServed ==
  [][ (last'.op = "enrich" /\ ~last'.error /\ sheet.exists) =>
        \A i \in 1..Len(last'.timestamps), n \in 1..Len(sheet.rows) :
          ( /\ sheet.rows[n].stationId = last'.stationId
            /\ sheet.rows[n].timestamp = last'.timestamps[i] )
          => /\ ~fetchedBy(last', last'.timestamps[i])
             /\ last'.results[i].temperature = Some(sheet.rows[n].temperature)
    ]_vars

\* a call an hour later that was served a written timestamp, now older than the
\* recent window, and fetched another one
C25_Witness ==
  /\ EnrichReturned
  /\ last.clock > Now0
  /\ \E i \in 1..Len(last.timestamps), j \in 1..Len(last.timestamps) :
       /\ \E n \in 1..Len(sheet.rows) :
            /\ sheet.rows[n].stationId = last.stationId
            /\ sheet.rows[n].timestamp = last.timestamps[i]
       /\ ~fetchedBy(last, last.timestamps[i])
       /\ last.timestamps[i] < windowStart
       /\ last.results[i].temperature # Null
       /\ fetchedBy(last, last.timestamps[j])

----------------------------------------------------------------------------
(* C28 *)

\* C28: when several rows of the queried station inside the window have the same
\* normalized hour, loadOutdoorTemperatureData maps that hour to the temperature
\* of the row that comes last in the sheet.
C28_LastRowWins ==
  last.op = "query" =>
    LET keptRows(k) ==
          { n \in 1..Len(sheet.rows) :
              /\ rowMatches(sheet.rows[n], last.stationId, last.startDate, last.endDate)
              /\ roundToHour(sheet.rows[n].timestamp) = k }
    IN  \A n \in 1..Len(sheet.rows) :
          ( /\ n \in keptRows(roundToHour(sheet.rows[n].timestamp))
            /\ \A m \in keptRows(roundToHour(sheet.rows[n].timestamp)) : m <= n )
          => /\ roundToHour(sheet.rows[n].timestamp) \in DOMAIN last.dataMap
             /\ last.dataMap[roundToHour(sheet.rows[n].timestamp)]
                  = sheet.rows[n].temperature

\* two rows of one hour with different temperatures were both inside the window
C28_Witness ==
  /\ last.op = "query"
  /\ \E m \in 1..Len(sheet.rows), n \in 1..Len(sheet.rows) :
       /\ m < n
       /\ rowMatches(sheet.rows[m], last.stationId, last.startDate, last.endDate)
       /\ rowMatches(sheet.rows[n], last.stationId, last.startDate, last.endDate)
       /\ roundToHour(sheet.rows[m].timestamp) = roundToHour(sheet.rows[n].timestamp)
       /\ sheet.rows[m].temperature # sheet.rows[n].temperature
       /\ last.dataMap[roundToHour(sheet.rows[n].timestamp)] = sheet.rows[n].temperature

----------------------------------------------------------------------------
(* C29 *)

\* C29: when getAmedasStationId finds no usable entry for the postal code and the
\* geocoder or the station directory throws (the geocoder was the only request, or
\* the directory was asked and gave no station), the call throws and the cache is
\* as it was before the call; the next call for the same postal code starts from
\* that cache and calls the geocoder again.
C29_FailureNotCached ==
  [][ ( /\ last.op = "station"
        /\ foundNothing
        /\ \/ last.calls = <<"geocoder">>
           \/ last.calls = <<"geocoder", "directory">> /\ last.stationId \notin DirectoryIds
        /\ last'.op = "station"
        /\ last'.postalCode = last.postalCode )
      => /\ last.error
         /\ cache = last.before
         /\ last'.before = cache
         /\ Len(last'.calls) >= 1
         /\ last'.calls[1] = "geocoder"
    ]_vars

\* a call that found an expired entry, failed at the station directory and left
\* the entry as it was
C29_Witness ==
  /\ last.op = "station"
  /\ last.before[last.postalCode].present
  /\ last.clock > last.before[last.postalCode].expiry
  /\ last.calls = <<"geocoder", "directory">>
  /\ last.error
  /\ cache = last.before

----------------------------------------------------------------------------
(* C24 *)

----------------------------------------------------------------------------
(* C23 *)

\* C23: for every day of the daily aggregation of a long-period chart with the
\* outdoor temperature, the 24 timestamps handed to getOutdoorTemperatureWithCache
\* are the hours 00:00 to 23:00 of that calendar day in the script time zone,
\* whatever the offset of the zone.
C23_HoursOfTheSameDay ==
  (last.op = "range" /\ last.function = "long" /\ ~last.error) =>
    \A k \in 1..Len(last.results) :
      last.results[k].timestamps # <<>> =>
        last.results[k].timestamps =
          [h \in 1..HoursPerDay |->
             last.results[k].dateKey * SecPerDay + (h - 1) * SecPerHour]

----------------------------------------------------------------------------
(* C27 *)

\* C27: when the update of a source in updateAllCharts fails with a hard error (a
\* missing column, or the geocoder or the station directory throws), the chart
\* sheet an earlier run rendered for the source is after the run as it was before
\* it: its chart and its data.
C27_FailedUpdateKeepsChart ==
  last.op = "charts" =>
    \A i \in 1..Len(SheetConfigs) :
      ( /\ last.charts[i].charts > 0
        /\ hardFailure(i)
        /\ last.log[i].outcome = "error" )
      => last.log[i].chart = last.charts[i]

----------------------------------------------------------------------------
(* C30 *)

\* C30: in the hourly update, for every data row that passes the recency filter of
\* updateSingleChart and whose hour the sheet does not have, the enricher issues a
\* fetch, although it reads the clock again later in the run.
C30_ChartedMissIsFetched ==
  last.op = "charts" =>
    \A i \in 1..Len(SheetConfigs) :
      last.log[i].outcome = "updated" =>
        \A n \in 1..Len(last.sources[i].rows) :
          ( /\ last.sources[i].rows[n].timestamp >= twoDaysAgoOf(last.clock)
            /\ roundToHour(last.sources[i].rows[n].timestamp) \notin last.log[i].hits )
          => \E k \in 1..Len(last.log[i].fetched) :
               last.log[i].fetched[k] = last.sources[i].rows[n].timestamp

====
